---- MODULE Spec2Model ----
(***************************************************************************)
(* Client-side authentication helper of src/list.js: authUser,             *)
(* getUserToken, getCurrentUser, getAwsCredentials, signOutUser and        *)
(* invokeApig, run by NProcs concurrent callers against the process-wide   *)
(* AWS.config.credentials.  The identity provider, the credential          *)
(* exchanger and the HTTP transport are the environment: their answers are *)
(* chosen nondeterministically.                                            *)
(***************************************************************************)
EXTENDS Integers, Sequences, FiniteSets, TLC

\* ---------------------------------------------------------------- bounds
NProcs == 2
MaxTime == 1

\* ------------------------------------------------------ program constants
Margin == 60000
OkStatus == 200
NotLoggedIn == "User is not logged in"

\* ----------------------------------------------------------- environment
Procs == 1..NProcs
\* the clock runs in milliseconds from the moment the page was loaded
Instants == 0..MaxTime
\* how long after the exchange the credentials it returns expire
Lifetimes == {Margin, Margin + 1}
Tokens == {"abc"}
\* the responses the gateway gives: a status and a body text
Statuses == {OkStatus, 201}
Bodies == {<<>>, <<"[">>, <<"[", "]">>, <<"]", "[">>, <<"[", "[", "]", "]">>}

\* JS null / undefined
Null == -1
Undefined == "undefined"

VARIABLES
    now,        \* Date.now()
    signedIn,   \* userPool.getCurrentUser() !== null
    creds,      \* AWS.config.credentials
    cachedId,   \* identity id cached by the SDK for the identity pool
    pc,         \* where each caller's operation is suspended
    op,         \* the exported function each caller is running
    auth,       \* the settlement of each caller's authUser()
    calls,      \* what each caller's current operation has invoked so far
    last,       \* the last step the program took, and what it produced
    hist,       \* how each caller's latest authUser() went, as a test observes it
    handler,    \* an invocation of the list or delete handler
    keys        \* two uploads and the object keys built for them

vars == <<now, signedIn, creds, cachedId, pc, op, auth, calls, last, hist, handler, keys>>

\* the variables the browser-side helper does not touch
others == <<hist, handler, keys>>

\* AWS.config.credentials === undefined
Absent ==
    [present |-> FALSE, owner |-> 0, logins |-> Undefined,
     accessKeyId |-> Undefined, secretAccessKey |-> Undefined,
     sessionToken |-> Undefined, expireTime |-> Null, identityId |-> Undefined]

\* new AWS.CognitoIdentityCredentials({}) : nothing in it
EmptyCredentials == [Absent EXCEPT !.present = TRUE]

\* new AWS.CognitoIdentityCredentials({IdentityPoolId, Logins}) made by
\* caller p: not exchanged yet, the identity id is loaded from the SDK cache
NewCredentials(p, userToken) ==
    [EmptyCredentials EXCEPT !.owner = p, !.logins = userToken, !.identityId = cachedId]

\* the credentials object after its getPromise() succeeded with answer r
Exchanged(c, r) ==
    [c EXCEPT !.accessKeyId = r.AccessKeyId,
              !.secretAccessKey = r.SecretKey,
              !.sessionToken = r.SessionToken,
              !.expireTime = r.Expiration,
              !.identityId = r.IdentityId]

\* the answers the federation service can give at the current time
Answers ==
    {[AccessKeyId |-> "AKID", SecretKey |-> "SECRET", SessionToken |-> "SESSION",
      Expiration |-> now + l, IdentityId |-> "identity"] : l \in Lifetimes}

NoAnswer ==
    [AccessKeyId |-> Undefined, SecretKey |-> Undefined, SessionToken |-> Undefined,
     Expiration |-> Null, IdentityId |-> Undefined]

\* an expiry of null taken for one that never comes
ToNumber_never(v) == IF v = Null THEN Margin + Margin + MaxTime + 1 ELSE v

\* JS ToNumber on the expireTime field: null - 60000 is -60000
ToNumber(v) == IF v = Null THEN 0 ELSE v

\* the margin compared with <= instead of <
hasValidCredentials_inclusive ==
    creds.present /\ now <= ToNumber(creds.expireTime) - Margin

\* the fast path never taken
hasValidCredentials_never == FALSE

\* src/list.js:38-41
hasValidCredentials ==
    creds.present /\ now < ToNumber(creds.expireTime) - Margin

NoAuth == [result |-> "pending", err |-> "none", token |-> Undefined]

NoCalls ==
    [getCurrentUser |-> 0, getSession |-> 0, exchange |-> 0, store |-> 0,
     sign |-> 0, fetch |-> 0, signOut |-> 0, clearCachedId |-> 0, upload |-> 0]

NoJson == [depth |-> 0, leaf |-> "none"]

\* a step of the program: which function ran for which caller, the operation
\* it belongs to, how authUser and the operation stand after it, what the
\* operation has invoked, and what the environment handed to the step
NoEvent ==
    [op |-> "init", proc |-> 0, of |-> "none", auth |-> "pending", result |-> "pending",
     err |-> "none", calls |-> NoCalls, answer |-> NoAnswer, status |-> 0,
     body |-> <<>>, detail |-> <<>>, json |-> NoJson,
     accessKey |-> Undefined, secretKey |-> Undefined, sessionToken |-> Undefined,
     key |-> <<>>, acl |-> "none", contentType |-> "none", value |-> "none"]

\* nothing observed yet of any caller's authUser(): per caller, the answer
\* its last exchange got, whether its flow overlapped another flow between the
\* validity check and the store, whether signOutUser ran while it was
\* suspended; and the caller whose store into the cache was the last one
NoHist ==
    [answered |-> [p \in Procs |-> NoAnswer],
     raced |-> [p \in Procs |-> FALSE],
     signedOut |-> [p \in Procs |-> FALSE],
     lastStore |-> 0]

\* what a handler hands to the envelope builder: a status flag, the items
\* found, and error detail
NoBody == [status |-> "none", items |-> {}, error |-> "none"]

\* no handler invocation, over the notes table as it stands
NoHandler ==
    [table |-> {}, name |-> "none", pc |-> "idle", user |-> "none", noteId |-> "none",
     storage |-> "none", error |-> "none", calls |-> 0, responses |-> 0,
     envelope |-> "none", body |-> NoBody]

\* two uploads a and b (identity id, time, file name) whose object keys
\* first and second are not built yet
NoKeys ==
    [built |-> FALSE,
     a |-> [id |-> <<>>, t |-> 0, name |-> <<>>],
     b |-> [id |-> <<>>, t |-> 0, name |-> <<>>],
     first |-> <<>>, second |-> <<>>]

\* the browser-side helper when the page has loaded
InitModule ==
    /\ now = 0
    /\ signedIn \in BOOLEAN
    /\ creds = Absent
    /\ cachedId \in {Undefined, "identity"}
    /\ pc = [p \in Procs |-> "idle"]
    /\ op = [p \in Procs |-> "none"]
    /\ auth = [p \in Procs |-> NoAuth]
    /\ calls = [p \in Procs |-> NoCalls]
    /\ last = NoEvent

Init ==
    /\ InitModule
    /\ hist = NoHist
    /\ handler = NoHandler
    /\ keys = NoKeys

\* ------------------------------------------------------------- authUser
\* the caller's variables after authUser() settled with a while it runs
\* operation o having invoked c: a direct call is over, invokeApig resumes
\* after its await
Settle(p, o, a, c) ==
    IF o = "authUser"
      THEN /\ pc' = [pc EXCEPT ![p] = "idle"]
           /\ op' = [op EXCEPT ![p] = "none"]
           /\ auth' = [auth EXCEPT ![p] = NoAuth]
           /\ calls' = [calls EXCEPT ![p] = NoCalls]
      ELSE /\ pc' = [pc EXCEPT ![p] = "authSettled"]
           /\ op' = [op EXCEPT ![p] = o]
           /\ auth' = [auth EXCEPT ![p] = a]
           /\ calls' = [calls EXCEPT ![p] = c]

\* the step of authUser() that settles it with a, for the event log
AuthEvent(name, p, o, a, c) ==
    [NoEvent EXCEPT !.op = name, !.proc = p, !.of = o, !.auth = a.result,
                    !.result = IF o = "authUser" THEN a.result ELSE "pending",
                    !.err = a.err, !.calls = c]

\* a handle is returned whether or not anybody is signed in
getCurrentUser_always == TRUE

\* src/list.js:72-78: the current user handle, null when nobody is signed in
getCurrentUser == signedIn

\* src/list.js:36-52, the synchronous part of authUser() run on behalf of
\* operation o: fast path, current-user query, start of the session fetch
authUserBegin(p, o) ==
    /\ pc[p] = "idle"
    /\ IF hasValidCredentials
         THEN LET a == [NoAuth EXCEPT !.result = "true"]
              IN  /\ Settle(p, o, a, NoCalls)
                  /\ last' = AuthEvent(o, p, o, a, NoCalls)
         ELSE IF ~getCurrentUser
         THEN LET a == [NoAuth EXCEPT !.result = "false"]
                  c == [NoCalls EXCEPT !.getCurrentUser = 1]
              IN  /\ Settle(p, o, a, c)
                  /\ last' = AuthEvent(o, p, o, a, c)
         ELSE LET c == [NoCalls EXCEPT !.getCurrentUser = 1, !.getSession = 1]
              IN  /\ pc' = [pc EXCEPT ![p] = "getSession"]
                  /\ op' = [op EXCEPT ![p] = o]
                  /\ auth' = [auth EXCEPT ![p] = NoAuth]
                  /\ calls' = [calls EXCEPT ![p] = c]
                  /\ last' = AuthEvent(o, p, o, NoAuth, c)
    /\ UNCHANGED <<now, signedIn, creds, cachedId>>

\* a caller calls authUser() itself
authUser(p) == authUserBegin(p, "authUser")

\* a store is skipped while another flow's object awaits its exchange
getAwsCredentials_firstWins(p, userToken) ==
    IF creds.present /\ creds.owner # 0 /\ creds.expireTime = Null
      THEN creds
      ELSE NewCredentials(p, userToken)

\* the new credentials object is exchanged but never assigned to
\* AWS.config.credentials
getAwsCredentials_noStore(p, userToken) == creds

\* src/list.js:80-92: getAwsCredentials replaces AWS.config.credentials by a
\* new credentials object and starts its exchange
getAwsCredentials(p, userToken) == NewCredentials(p, userToken)

\* src/list.js:62-67 then 52-55: the session callback delivers a token;
\* authUser resumes and calls getAwsCredentials with it
getUserTokenResolve(p, userToken) ==
    /\ pc[p] = "getSession"
    /\ auth' = [auth EXCEPT ![p].token = userToken]
    /\ creds' = getAwsCredentials(p, userToken)
    /\ calls' = [calls EXCEPT ![p].store = @ + 1, ![p].exchange = @ + 1]
    /\ pc' = [pc EXCEPT ![p] = "getPromise"]
    /\ last' = AuthEvent("getUserTokenResolve", p, op[p], auth'[p], calls'[p])
    /\ UNCHANGED <<now, signedIn, cachedId, op>>

\* the session is fetched again after a session error
getUserTokenReject_retry(p) ==
    /\ pc[p] = "getSession"
    /\ calls' = [calls EXCEPT ![p].getSession = @ + 1]
    /\ last' = AuthEvent("getUserTokenReject", p, op[p], auth[p], calls'[p])
    /\ UNCHANGED <<now, signedIn, creds, cachedId, pc, op, auth>>

\* the session error is swallowed and reported as "not logged in"
getUserTokenReject_false(p) ==
    /\ pc[p] = "getSession"
    /\ LET a == [auth[p] EXCEPT !.result = "false"]
       IN  /\ Settle(p, op[p], a, calls[p])
           /\ last' = AuthEvent("getUserTokenReject", p, op[p], a, calls[p])
    /\ UNCHANGED <<now, signedIn, creds, cachedId>>

\* src/list.js:63-66 then 52: the session callback reports an error,
\* authUser rejects with it
getUserTokenReject(p) ==
    /\ pc[p] = "getSession"
    /\ LET a == [auth[p] EXCEPT !.result = "rejected", !.err = "SessionError"]
       IN  /\ Settle(p, op[p], a, calls[p])
           /\ last' = AuthEvent("getUserTokenReject", p, op[p], a, calls[p])
    /\ UNCHANGED <<now, signedIn, creds, cachedId>>

\* src/list.js:92 then 55-57: the exchange succeeds with answer r; the SDK
\* fills the credentials object this caller created (which is
\* AWS.config.credentials only if nobody replaced it) and caches the
\* identity id; authUser resolves to true
getAwsCredentialsResolve(p, r) ==
    /\ pc[p] = "getPromise"
    /\ creds' = IF creds.present /\ creds.owner = p THEN Exchanged(creds, r) ELSE creds
    /\ cachedId' = r.IdentityId
    /\ LET a == [auth[p] EXCEPT !.result = "true"]
       IN  /\ Settle(p, op[p], a, calls[p])
           /\ last' = [AuthEvent("getAwsCredentialsResolve", p, op[p], a, calls[p])
                         EXCEPT !.answer = r]
    /\ UNCHANGED <<now, signedIn>>

\* src/list.js:92 then 55: the exchange fails, authUser rejects with it
getAwsCredentialsReject(p) ==
    /\ pc[p] = "getPromise"
    /\ LET a == [auth[p] EXCEPT !.result = "rejected", !.err = "ExchangeError"]
       IN  /\ Settle(p, op[p], a, calls[p])
           /\ last' = AuthEvent("getAwsCredentialsReject", p, op[p], a, calls[p])
    /\ UNCHANGED <<now, signedIn, creds, cachedId>>

\* ---------------------------------------------------------- signOutUser
\* src/list.js:96-100
signOutCurrentUser(user) == IF user THEN FALSE ELSE user

\* the cached credentials survive the sign-out
signOutCredentials_keep(c) == c

\* an empty credentials object is installed even when nothing was cached
signOutCredentials_always(c) == EmptyCredentials

\* src/list.js:102-105
signOutCredentials(c) == IF c.present THEN EmptyCredentials ELSE c

\* clearCachedId() is not called: the cached id stays
signOutCachedId_keep(c, id) == id

\* src/list.js:102-103: clearCachedId() of the pool's credentials object
\* drops the cached id; the empty object made at line 104 names no pool
signOutCachedId(c, id) == IF c.present /\ c.owner # 0 THEN Undefined ELSE id

\* src/list.js:95-106, synchronous
signOutUser ==
    /\ signedIn' = signOutCurrentUser(getCurrentUser)
    /\ creds' = signOutCredentials(creds)
    /\ cachedId' = signOutCachedId(creds, cachedId)
    /\ last' = [NoEvent EXCEPT !.op = "signOutUser", !.of = "signOutUser",
                               !.result = "returned",
                               !.calls = [NoCalls EXCEPT
                                   !.getCurrentUser = 1,
                                   !.signOut = IF getCurrentUser THEN 1 ELSE 0,
                                   !.clearCachedId = IF creds.present THEN 1 ELSE 0]]
    /\ UNCHANGED <<now, pc, op, auth, calls>>

\* ----------------------------------------------------------- invokeApig
\* src/list.js:153, results.json(): the body parsed as JSON.  Over brackets the
\* JSON texts are [] and [v] for a JSON text v; the value is an empty array
\* inside depth enclosing arrays.  Anything else is a SyntaxError.
RECURSIVE json(_)
json(text) ==
    IF text = <<"[", "]">> THEN [ok |-> TRUE, value |-> [depth |-> 0, leaf |-> "array"]]
    ELSE IF Len(text) > 2 /\ text[1] = "[" /\ text[Len(text)] = "]"
    THEN LET inner == json(SubSeq(text, 2, Len(text) - 1))
         IN  IF inner.ok
               THEN [ok |-> TRUE, value |-> [inner.value EXCEPT !.depth = @ + 1]]
               ELSE inner
    ELSE [ok |-> FALSE, value |-> NoJson]

\* the caller's variables once its operation is over
Finish(p) ==
    /\ pc' = [pc EXCEPT ![p] = "idle"]
    /\ op' = [op EXCEPT ![p] = "none"]
    /\ auth' = [auth EXCEPT ![p] = NoAuth]
    /\ calls' = [calls EXCEPT ![p] = NoCalls]

\* a step of invokeApig, for the event log
ApigEvent(name, p, c) ==
    [NoEvent EXCEPT !.op = name, !.proc = p, !.of = "invokeApig",
                    !.auth = auth[p].result, !.calls = c]

\* src/list.js:113 and 120: a caller calls invokeApig(), which runs the
\* synchronous part of authUser() and awaits it
invokeApig(p) == authUserBegin(p, "invokeApig")

\* the answer false is not checked
afterAuth_noCheck(a, c) ==
    IF a.result = "rejected" THEN [do |-> "throw", err |-> a.err]
    ELSE IF ~c.present THEN [do |-> "throw", err |-> "TypeError"]
    ELSE [do |-> "send", err |-> "none"]

\* src/list.js:120-131: what invokeApig does with authUser's settlement a
\* when the cache holds c: rethrow a rejection, throw when the answer is
\* false, fail on reading a property of undefined, or sign and send
afterAuth(a, c) ==
    IF a.result = "rejected" THEN [do |-> "throw", err |-> a.err]
    ELSE IF a.result = "false" THEN [do |-> "throw", err |-> NotLoggedIn]
    ELSE IF ~c.present THEN [do |-> "throw", err |-> "TypeError"]
    ELSE [do |-> "send", err |-> "none"]

\* src/list.js:120-147: invokeApig resumes with authUser's settlement and
\* either throws or signs with the credentials that are cached now and sends
\* the request
invokeApigResume(p) ==
    /\ pc[p] = "authSettled"
    /\ IF afterAuth(auth[p], creds).do = "throw"
         THEN /\ Finish(p)
              /\ last' = [ApigEvent("invokeApigResume", p, calls[p])
                            EXCEPT !.result = "rejected",
                                   !.err = afterAuth(auth[p], creds).err]
         ELSE /\ calls' = [calls EXCEPT ![p].sign = @ + 1, ![p].fetch = @ + 1]
              /\ pc' = [pc EXCEPT ![p] = "fetch"]
              /\ last' = [ApigEvent("invokeApigResume", p, calls'[p])
                            EXCEPT !.accessKey = creds.accessKeyId,
                                   !.secretKey = creds.secretAccessKey,
                                   !.sessionToken = creds.sessionToken]
              /\ UNCHANGED <<op, auth>>
    /\ UNCHANGED <<now, signedIn, creds, cachedId>>

\* every 2xx status taken for success
Outcome_any2xx(status, text) ==
    IF status < 200 \/ status > 299
      THEN [result |-> "rejected", err |-> "Error", detail |-> text, json |-> NoJson]
    ELSE IF json(text).ok
      THEN [result |-> "resolved", err |-> "none", detail |-> <<>>, json |-> json(text).value]
    ELSE [result |-> "rejected", err |-> "SyntaxError", detail |-> <<>>, json |-> NoJson]

\* src/list.js:149-153: the outcome of invokeApig for a response
Outcome(status, text) ==
    IF status # OkStatus
      THEN [result |-> "rejected", err |-> "Error", detail |-> text, json |-> NoJson]
    ELSE IF json(text).ok
      THEN [result |-> "resolved", err |-> "none", detail |-> <<>>, json |-> json(text).value]
    ELSE [result |-> "rejected", err |-> "SyntaxError", detail |-> <<>>, json |-> NoJson]

\* src/list.js:143-153: the response arrives
invokeApigResponse(p, status, text) ==
    /\ pc[p] = "fetch"
    /\ Finish(p)
    /\ last' = [ApigEvent("invokeApigResponse", p, calls[p])
                  EXCEPT !.status = status, !.body = text,
                         !.result = Outcome(status, text).result,
                         !.err = Outcome(status, text).err,
                         !.detail = Outcome(status, text).detail,
                         !.json = Outcome(status, text).json]
    /\ UNCHANGED <<now, signedIn, creds, cachedId>>

\* src/list.js:143: fetch itself rejects (no response at all)
invokeApigFetchReject(p) ==
    /\ pc[p] = "fetch"
    /\ Finish(p)
    /\ last' = [ApigEvent("invokeApigFetchReject", p, calls[p])
                  EXCEPT !.result = "rejected", !.err = "NetworkError"]
    /\ UNCHANGED <<now, signedIn, creds, cachedId>>

\* ------------------------------------------------------------- s3Upload
\* the files a caller uploads, by name
FileNames == {<<"f">>, <<"1", "-", "f">>}
\* what the object storage answers to an upload
UploadResults == {"stored"}

\* the decimal digits
Digits == <<"0", "1", "2", "3", "4", "5", "6", "7", "8", "9">>

\* src/list.js:174, `${Date.now()}`: a number written in decimal
RECURSIVE Decimal(_)
Decimal(n) ==
    IF n < 10 THEN <<Digits[n + 1]>>
    ELSE Decimal(n \div 10) \o <<Digits[(n % 10) + 1]>>

\* src/list.js:174, `${AWS.config.credentials.identityId}`: the identity id as
\* text; the identity the federation service answers with is written r:a and
\* a missing id is written out as the word undefined
IdText(id) ==
    IF id = Undefined THEN <<"u", "n", "d", "e", "f", "i", "n", "e", "d">>
    ELSE <<"r", ":", "a">>

\* the object key without the identity id in front
filename_noIdentity(id, t, name) == Decimal(t) \o <<"-">> \o name

\* src/list.js:174: the object key of an upload
filename(id, t, name) == id \o <<"-">> \o Decimal(t) \o <<"-">> \o name

\* the identity ids of the configured identity pool as text: the pool's region,
\* a colon and a GUID of fixed length with hyphens in it; and the word
\* undefined, which stands in the key when the cached set has no id
IdentityIds ==
    {<<"r", ":", "1", "-", "a">>, <<"r", ":", "1", "-", "b">>,
     <<"r", ":", "2", "-", "a">>, <<"r", ":", "a", "-", "1">>,
     IdText(Undefined)}
\* the values of Date.now() at an upload, of one and of two digits
Timestamps == {1, 2, 12}
\* the names of uploaded files, with digits and hyphens as in the keys
KeyFileNames == {<<"f">>, <<"1", "-", "f">>, <<"2", "-", "f">>, <<"a", "-", "1", "-", "f">>}
\* an upload: who, when, which file
Uploads == [id : IdentityIds, t : Timestamps, name : KeyFileNames]

\* src/list.js:174, for two uploads: their object keys
buildKeys ==
    /\ ~keys.built
    /\ keys' = [keys EXCEPT !.built = TRUE,
                            !.first = filename(keys.a.id, keys.a.t, keys.a.name),
                            !.second = filename(keys.b.id, keys.b.t, keys.b.name)]
    /\ UNCHANGED <<now, signedIn, creds, cachedId, pc, op, auth, calls, last, hist, handler>>

\* a step of s3Upload, for the event log
UploadEvent(name, p, c) ==
    [NoEvent EXCEPT !.op = name, !.proc = p, !.of = "s3Upload",
                    !.auth = auth[p].result, !.calls = c]

\* src/list.js:162-163: a caller calls s3Upload(), which runs the
\* synchronous part of authUser() and awaits it
s3Upload(p) == authUserBegin(p, "s3Upload")

\* the answer false is not checked
s3AfterAuth_noCheck(a, c) ==
    IF a.result = "rejected" THEN [do |-> "throw", err |-> a.err]
    ELSE IF ~c.present THEN [do |-> "throw", err |-> "TypeError"]
    ELSE [do |-> "upload", err |-> "none"]

\* src/list.js:163-174: what s3Upload does with authUser's settlement a when
\* the cache holds c: rethrow a rejection, throw when the answer is false,
\* fail on reading a property of undefined, or upload
s3AfterAuth(a, c) ==
    IF a.result = "rejected" THEN [do |-> "throw", err |-> a.err]
    ELSE IF a.result = "false" THEN [do |-> "throw", err |-> NotLoggedIn]
    ELSE IF ~c.present THEN [do |-> "throw", err |-> "TypeError"]
    ELSE [do |-> "upload", err |-> "none"]

\* src/list.js:163-184: s3Upload resumes with authUser's settlement and
\* either throws or names the object after the identity id that is cached now
\* and starts the upload of the file
s3UploadResume(p, name) ==
    /\ pc[p] = "authSettled"
    /\ op[p] = "s3Upload"
    /\ IF s3AfterAuth(auth[p], creds).do = "throw"
         THEN /\ Finish(p)
              /\ last' = [UploadEvent("s3UploadResume", p, calls[p])
                            EXCEPT !.result = "rejected",
                                   !.err = s3AfterAuth(auth[p], creds).err]
         ELSE /\ calls' = [calls EXCEPT ![p].upload = @ + 1]
              /\ pc' = [pc EXCEPT ![p] = "upload"]
              /\ last' = [UploadEvent("s3UploadResume", p, calls'[p])
                            EXCEPT !.key = filename(IdText(creds.identityId), now, name),
                                   !.acl = "public-read",
                                   !.contentType = "file.type"]
              /\ UNCHANGED <<op, auth>>
    /\ UNCHANGED <<now, signedIn, creds, cachedId>>

\* src/list.js:177-184: the upload succeeds with result r, which s3Upload
\* returns
s3UploadResolve(p, r) ==
    /\ pc[p] = "upload"
    /\ Finish(p)
    /\ last' = [UploadEvent("s3UploadResolve", p, calls[p])
                  EXCEPT !.result = "resolved", !.value = r]
    /\ UNCHANGED <<now, signedIn, creds, cachedId>>

\* src/list.js:177-184: the upload fails, s3Upload rejects with the error
s3UploadReject(p) ==
    /\ pc[p] = "upload"
    /\ Finish(p)
    /\ last' = [UploadEvent("s3UploadReject", p, calls[p])
                  EXCEPT !.result = "rejected", !.err = "UploadError"]
    /\ UNCHANGED <<now, signedIn, creds, cachedId>>

\* ------------------------------------------------- list / delete handlers
\* the identities that call the handlers, the note ids, the notes table rows
Users == {"u1", "u2"}
NoteIds == {"n1", "n2"}
Notes == Users \X NoteIds
\* the errors the table service raises
StorageErrors == {"ProvisionedThroughputExceeded", "AccessDenied"}

\* the error detail handed on to the caller
failureBody_leak(err) == [NoBody EXCEPT !.status = "false", !.error = err]

\* src/list.js:26 and 206: { status: false }
failureBody(err) == [NoBody EXCEPT !.status = "false"]

\* src/list.js:4-20 and 190-203: a handler is invoked for identity u (and, to
\* delete, note id n), builds its parameters and issues its storage call
main(name, u, n) ==
    /\ handler.pc \in {"idle", "responded"}
    /\ handler' = [NoHandler EXCEPT !.table = handler.table, !.name = name,
                                    !.pc = "storage", !.user = u,
                                    !.noteId = IF name = "delete" THEN n ELSE "none",
                                    !.calls = 1]
    /\ UNCHANGED <<now, signedIn, creds, cachedId, pc, op, auth, calls, last, hist, keys>>

\* src/list.js:20-24: the query succeeds with the identity's rows; the list
\* handler responds with success(result.Items)
listResolve ==
    /\ handler.pc = "storage"
    /\ handler.name = "list"
    /\ handler' = [handler EXCEPT
                     !.pc = "responded", !.storage = "ok", !.responses = @ + 1,
                     !.envelope = "success",
                     !.body = [NoBody EXCEPT
                                 !.items = {row \in handler.table : row[1] = handler.user}]]
    /\ UNCHANGED <<now, signedIn, creds, cachedId, pc, op, auth, calls, last, hist, keys>>

\* src/list.js:203-204: the delete succeeds; the delete handler responds with
\* success({ status: true })
deleteResolve ==
    /\ handler.pc = "storage"
    /\ handler.name = "delete"
    /\ handler' = [handler EXCEPT
                     !.table = @ \ {<<handler.user, handler.noteId>>},
                     !.pc = "responded", !.storage = "ok", !.responses = @ + 1,
                     !.envelope = "success",
                     !.body = [NoBody EXCEPT !.status = "true"]]
    /\ UNCHANGED <<now, signedIn, creds, cachedId, pc, op, auth, calls, last, hist, keys>>

\* src/list.js:25-27 and 205-207: the storage call fails with err; the handler
\* responds with failure({ status: false })
storageReject(err) ==
    /\ handler.pc = "storage"
    /\ handler' = [handler EXCEPT
                     !.pc = "responded", !.storage = "error", !.error = err,
                     !.responses = @ + 1, !.envelope = "failure",
                     !.body = failureBody(err)]
    /\ UNCHANGED <<now, signedIn, creds, cachedId, pc, op, auth, calls, last, hist, keys>>

\* authUser is not suspended at the session fetch or the exchange
NotSuspended(p) == pc[p] \notin {"getSession", "getPromise"}

\* ---------------------------------------------------------- environment
\* Date.now() moves on
Tick ==
    /\ now < MaxTime
    /\ now' = now + 1
    /\ UNCHANGED <<signedIn, creds, cachedId, pc, op, auth, calls, last>>

\* a user signs in at the identity provider (outside this module)
SignIn ==
    /\ ~signedIn
    /\ signedIn' = TRUE
    /\ UNCHANGED <<now, creds, cachedId, pc, op, auth, calls, last>>

Next ==
    /\ \/ \E p \in Procs : authUser(p)
       \/ \E p \in Procs : \E t \in Tokens : getUserTokenResolve(p, t)
       \/ \E p \in Procs : getUserTokenReject(p)
       \/ \E p \in Procs : \E r \in Answers : getAwsCredentialsResolve(p, r)
       \/ \E p \in Procs : getAwsCredentialsReject(p)
       \/ \E p \in Procs : invokeApig(p)
       \/ \E p \in Procs : invokeApigResume(p)
       \/ \E p \in Procs : \E st \in Statuses : \E b \in Bodies : invokeApigResponse(p, st, b)
       \/ \E p \in Procs : invokeApigFetchReject(p)
       \/ signOutUser
       \/ SignIn
       \/ Tick
    /\ UNCHANGED others

Spec == Init /\ [][Next]_vars

\* one operation at a time: a caller starts, and signOutUser runs, only while
\* no operation is in flight
Quiet == \A p \in Procs : pc[p] = "idle"

NextSeq ==
    /\ \/ \E p \in Procs : Quiet /\ authUser(p)
       \/ \E p \in Procs : \E t \in Tokens : getUserTokenResolve(p, t)
       \/ \E p \in Procs : getUserTokenReject(p)
       \/ \E p \in Procs : \E r \in Answers : getAwsCredentialsResolve(p, r)
       \/ \E p \in Procs : getAwsCredentialsReject(p)
       \/ \E p \in Procs : Quiet /\ invokeApig(p)
       \/ \E p \in Procs : invokeApigResume(p)
       \/ \E p \in Procs : \E st \in Statuses : \E b \in Bodies : invokeApigResponse(p, st, b)
       \/ \E p \in Procs : invokeApigFetchReject(p)
       \/ Quiet /\ signOutUser
       \/ SignIn
       \/ Tick
    /\ UNCHANGED others

SpecSeq == Init /\ [][NextSeq]_vars

\* callers that authenticate and upload, concurrently
NextUpload ==
    /\ \/ \E p \in Procs : authUser(p)
       \/ \E p \in Procs : \E t \in Tokens : getUserTokenResolve(p, t)
       \/ \E p \in Procs : getUserTokenReject(p)
       \/ \E p \in Procs : \E r \in Answers : getAwsCredentialsResolve(p, r)
       \/ \E p \in Procs : getAwsCredentialsReject(p)
       \/ \E p \in Procs : s3Upload(p)
       \/ \E p \in Procs : \E name \in FileNames : s3UploadResume(p, name)
       \/ \E p \in Procs : \E r \in UploadResults : s3UploadResolve(p, r)
       \/ \E p \in Procs : s3UploadReject(p)
       \/ signOutUser
       \/ SignIn
       \/ Tick
    /\ UNCHANGED others

SpecUpload == Init /\ [][NextUpload]_vars

\* callers of authUser() itself and of signOutUser, concurrently
NextAuth ==
    /\ \/ \E p \in Procs : authUser(p)
       \/ \E p \in Procs : \E t \in Tokens : getUserTokenResolve(p, t)
       \/ \E p \in Procs : getUserTokenReject(p)
       \/ \E p \in Procs : \E r \in Answers : getAwsCredentialsResolve(p, r)
       \/ \E p \in Procs : getAwsCredentialsReject(p)
       \/ signOutUser
       \/ SignIn
       \/ Tick
    /\ UNCHANGED others

SpecAuth == Init /\ [][NextAuth]_vars

\* authUser() flows of several callers interleaved at their awaits, nobody
\* signing out, with the observations of hist kept
NextRace ==
    /\ \/ \E p \in Procs :
             /\ authUser(p)
             /\ hist' = [hist EXCEPT !.raced[p] = FALSE]
       \/ \E p \in Procs : \E t \in Tokens :
             /\ getUserTokenResolve(p, t)
             /\ hist' = [hist EXCEPT
                           !.lastStore = p,
                           !.answered[p] = NoAnswer,
                           !.raced = [q \in Procs |->
                                        \/ hist.raced[q]
                                        \/ /\ \E o \in Procs \ {p} : pc[o] = "getSession"
                                           /\ q = p \/ pc[q] = "getSession"]]
       \/ \E p \in Procs :
             /\ getUserTokenReject(p)
             /\ UNCHANGED hist
       \/ \E p \in Procs : \E r \in Answers :
             /\ getAwsCredentialsResolve(p, r)
             /\ hist' = [hist EXCEPT !.answered[p] = r]
       \/ \E p \in Procs :
             /\ getAwsCredentialsReject(p)
             /\ UNCHANGED hist
       \/ SignIn /\ UNCHANGED hist
       \/ Tick /\ UNCHANGED hist
    /\ UNCHANGED <<handler, keys>>

SpecRace == Init /\ [][NextRace]_vars

\* the object keys of any two uploads
InitKeys ==
    /\ InitModule
    /\ hist = NoHist
    /\ handler = NoHandler
    /\ \E u, v \in Uploads : keys = [NoKeys EXCEPT !.a = u, !.b = v]

NextKeys == buildKeys

SpecKeys == InitKeys /\ [][NextKeys]_vars

\* authUser() flows and signOutUser calls interleaved, with hist keeping for
\* each caller whether signOutUser has run while its flow was suspended and
\* nobody has signed in since
NextSignOut ==
    /\ \/ \E p \in Procs :
             /\ authUser(p)
             /\ hist' = [hist EXCEPT !.signedOut[p] = FALSE]
       \/ \E p \in Procs : \E t \in Tokens :
             /\ getUserTokenResolve(p, t)
             /\ UNCHANGED hist
       \/ \E p \in Procs :
             /\ getUserTokenReject(p)
             /\ UNCHANGED hist
       \/ \E p \in Procs : \E r \in Answers :
             /\ getAwsCredentialsResolve(p, r)
             /\ UNCHANGED hist
       \/ \E p \in Procs :
             /\ getAwsCredentialsReject(p)
             /\ UNCHANGED hist
       \/ /\ signOutUser
          /\ hist' = [hist EXCEPT
                        !.signedOut = [p \in Procs |-> hist.signedOut[p] \/ ~NotSuspended(p)]]
       \/ /\ SignIn
          /\ hist' = [hist EXCEPT !.signedOut = [p \in Procs |-> FALSE]]
       \/ Tick /\ UNCHANGED hist
    /\ UNCHANGED <<handler, keys>>

SpecSignOut == Init /\ [][NextSignOut]_vars

\* the handlers, over any notes table
InitHandlers ==
    /\ InitModule
    /\ hist = NoHist
    /\ keys = NoKeys
    /\ \E t \in SUBSET Notes : handler = [NoHandler EXCEPT !.table = t]

NextHandlers ==
    \/ \E u \in Users : main("list", u, "none")
    \/ \E u \in Users : \E n \in NoteIds : main("delete", u, n)
    \/ listResolve
    \/ deleteResolve
    \/ \E err \in StorageErrors : storageReject(err)

SpecHandlers == InitHandlers /\ [][NextHandlers]_vars

\* ================================================================ claims
\* a call of authUser(), made directly or by invokeApig
AuthCall(p) == authUser(p) \/ invokeApig(p)

\* the credential set c is present, carries an expiry, and the time t is
\* more than the margin before it
ValidAt(c, t) == c.present /\ c.expireTime # Null /\ t + Margin < c.expireTime

\* C1: a call of authUser takes the fast path (settles true in the call
\* itself) if and only if a credential set is cached and the current time is
\* strictly less than its expiry minus 60000 ms; so not at expiry - 60000
\* exactly, and not when nothing is cached
C1_FastPathIffBeforeMargin ==
    [][\A p \in Procs : AuthCall(p) => (last'.auth = "true" <=> ValidAt(creds, now))]_vars

\* C1 witness: authUser was called at exactly expiry - 60000 and did not
\* take the fast path
C1_Witness ==
    /\ last.op = "authUser"
    /\ last.auth # "true"
    /\ creds.present
    /\ creds.expireTime = now + Margin

\* C2: a call of authUser while the cache holds valid credentials settles
\* true in the call itself, without suspending, without querying the current
\* user, fetching a session or exchanging, and leaves the cache as it was (so
\* the next call finds the same)
C2_FastPathNoCalls ==
    [][\A p \in Procs :
         (AuthCall(p) /\ ValidAt(creds, now)) =>
            /\ last'.auth = "true"
            /\ last'.calls = NoCalls
            /\ NotSuspended(p)'
            /\ creds' = creds
            /\ cachedId' = cachedId
            /\ ValidAt(creds', now')]_vars

\* C2 witness: authUser has just returned true having invoked nothing, and
\* the credentials are still valid for the next call
C2_Witness ==
    /\ last.op = "authUser"
    /\ last.result = "true"
    /\ last.calls = NoCalls
    /\ ValidAt(creds, now)

\* the cache holds the credential set r the exchanger answered with
CacheHolds(c, r) ==
    /\ c.present
    /\ c.accessKeyId = r.AccessKeyId
    /\ c.secretAccessKey = r.SecretKey
    /\ c.sessionToken = r.SessionToken
    /\ c.expireTime = r.Expiration
    /\ c.identityId = r.IdentityId

\* C3: with one operation at a time: when the exchange started by authUser
\* for the fetched token succeeds with a credential set, authUser resolves to
\* true and the cache then holds exactly that set, obtained for that token;
\* if the set expires more than 60000 ms from now the validity check is true
C3_ExchangeStoresAndValidates ==
    [][\A p \in Procs : \A r \in Answers :
         getAwsCredentialsResolve(p, r) =>
            /\ last'.auth = "true"
            /\ CacheHolds(creds', r)
            /\ creds'.logins = auth[p].token
            /\ auth[p].token \in Tokens
            /\ (r.Expiration > now + Margin => hasValidCredentials')]_vars

\* C3 witness: authUser has resolved to true through an exchange whose set
\* expires more than 60000 ms ahead; the cache holds it and reports valid
C3_Witness ==
    /\ last.op = "getAwsCredentialsResolve"
    /\ last.of = "authUser"
    /\ last.result = "true"
    /\ last.answer.Expiration > now + Margin
    /\ CacheHolds(creds, last.answer)
    /\ hasValidCredentials

\* C4: a call of authUser with no valid credentials cached and nobody signed
\* in settles in the call itself with false, never with a rejection; it
\* fetches no session, exchanges nothing and leaves the cache as it was
C4_NoUserResolvesFalse ==
    [][\A p \in Procs :
         (AuthCall(p) /\ ~ValidAt(creds, now) /\ ~signedIn) =>
            /\ last'.auth = "false"
            /\ last'.err = "none"
            /\ NotSuspended(p)'
            /\ last'.calls.getSession = 0
            /\ last'.calls.exchange = 0
            /\ last'.calls.store = 0
            /\ creds' = creds
            /\ cachedId' = cachedId]_vars

\* C4 witness: authUser has just resolved to false after the current-user
\* query alone
C4_Witness ==
    /\ last.op = "authUser"
    /\ last.result = "false"
    /\ last.calls.getCurrentUser = 1
    /\ ~signedIn

\* C5: when the session fetch is rejected, authUser rejects with that very
\* error, the flow has exchanged nothing and stored nothing, and the step
\* leaves the cache as it was
C5_SessionErrorPropagates ==
    [][\A p \in Procs :
         (pc[p] = "getSession" /\ last'.op = "getUserTokenReject" /\ last'.proc = p) =>
            /\ last'.auth = "rejected"
            /\ last'.err = "SessionError"
            /\ NotSuspended(p)'
            /\ last'.calls.exchange = 0
            /\ last'.calls.store = 0
            /\ creds' = creds
            /\ cachedId' = cachedId]_vars

\* C5 witness: a direct authUser call has been rejected with the session error
C5_Witness ==
    /\ last.op = "getUserTokenReject"
    /\ last.of = "authUser"
    /\ last.result = "rejected"
    /\ last.err = "SessionError"

\* C6 (as claimed): the cached credential set changes only when an exchange
\* has succeeded (or on sign-out), so a flow whose exchange fails leaves the
\* cache as it was before the call
C6_CacheChangesOnlyOnExchangeSuccess ==
    [][creds' # creds => last'.op \in {"getAwsCredentialsResolve", "signOutUser"}]_vars

\* C7: after signOutUser the validity check is false; and when no
\* authentication flow is in flight, a following authUser call made while
\* nobody is signed in resolves to false
C7_SignOutThenAuthFalse ==
    [][/\ signOutUser => ~hasValidCredentials'
       /\ \A p \in Procs :
            (last.op = "signOutUser" /\ Quiet /\ ~signedIn /\ AuthCall(p)) =>
               (last'.auth = "false" /\ last'.err = "none")]_vars

\* C7 witness: authUser has resolved to false on the empty credential set
\* that a sign-out left behind
C7_Witness ==
    /\ last.op = "authUser"
    /\ last.result = "false"
    /\ creds = EmptyCredentials
    /\ Quiet

\* C8: when authUser has resolved to false for invokeApig, invokeApig rejects
\* with the not-logged-in error and the invocation is over without having
\* signed anything or sent any request
C8_NotLoggedInBeforeSigning ==
    (last.op = "invokeApigResume" /\ last.auth = "false") =>
        /\ last.result = "rejected"
        /\ last.err = NotLoggedIn
        /\ last.calls.sign = 0
        /\ last.calls.fetch = 0
        /\ pc[last.proc] = "idle"
        /\ calls[last.proc] = NoCalls

\* C8 witness: invokeApig has rejected because authUser resolved to false
C8_Witness ==
    /\ last.op = "invokeApigResume"
    /\ last.auth = "false"
    /\ last.result = "rejected"

\* what signOutUser leaves of a state
SignedOut(u, c, id) ==
    <<signOutCurrentUser(u), signOutCredentials(c), signOutCachedId(c, id)>>

\* C9: signOutUser called with nobody signed in and the cache absent or
\* already emptied leaves the current user, the cache contents and the
\* validity check as they were; and signing out again after any sign-out
\* changes nothing
C9_SignOutIdempotent ==
    [][signOutUser =>
         /\ (~signedIn /\ creds \in {Absent, EmptyCredentials}) =>
               /\ signedIn' = signedIn
               /\ creds' = creds
               /\ hasValidCredentials' = hasValidCredentials
               /\ ~hasValidCredentials'
         /\ SignedOut(signedIn', creds', cachedId') = <<signedIn', creds', cachedId'>>]_vars

\* C9 witness: signOutUser has run with nobody signed in and nothing cached
C9_Witness ==
    /\ last.op = "signOutUser"
    /\ last.calls.signOut = 0
    /\ last.calls.clearCachedId = 0
    /\ creds = Absent

\* the texts that are JSON over brackets: n opening brackets then n closing
IsJsonText(text) ==
    /\ Len(text) >= 2
    /\ Len(text) % 2 = 0
    /\ \A i \in 1..Len(text) : text[i] = (IF 2 * i <= Len(text) THEN "[" ELSE "]")

\* the request was signed and sent once, and the invocation is over
SentOnce ==
    /\ last.auth = "true"
    /\ last.calls.sign = 1
    /\ last.calls.fetch = 1
    /\ pc[last.proc] = "idle"

\* C10 (as claimed): a response with a status other than 200 rejects with the
\* body text as the detail, a response with status 200 resolves, and the
\* request was sent once
C10_Ok200AlwaysResolves ==
    last.op = "invokeApigResponse" =>
        /\ SentOnce
        /\ IF last.status # OkStatus
             THEN last.result = "rejected" /\ last.detail = last.body
             ELSE last.result = "resolved"

\* C10 (amended): a response with a status other than 200 rejects with the
\* body text as the detail; a response with status 200 resolves to the parsed
\* body when the body is JSON text and rejects with the parse error when it
\* is not; the request was sent once
C10_ResponseOutcome ==
    last.op = "invokeApigResponse" =>
        /\ SentOnce
        /\ IF last.status # OkStatus
             THEN last.result = "rejected" /\ last.err = "Error" /\ last.detail = last.body
           ELSE IF IsJsonText(last.body)
             THEN /\ last.result = "resolved"
                  /\ last.json = [depth |-> (Len(last.body) \div 2) - 1, leaf |-> "array"]
           ELSE last.result = "rejected" /\ last.err = "SyntaxError"

\* C10 witness: a 2xx response other than 200 has rejected the invocation
\* with its body text
C10_Witness ==
    /\ last.op = "invokeApigResponse"
    /\ last.status = 201
    /\ last.result = "rejected"
    /\ last.detail = last.body
    /\ Len(last.body) > 0

\* an object key starts with the text id followed by a dash
StartsWith(key, id) ==
    /\ Len(key) > Len(id)
    /\ SubSeq(key, 1, Len(id)) = id
    /\ key[Len(id) + 1] = "-"

\* C11: when s3Upload resumes after authUser resolved to false it rejects with
\* the not-logged-in error and no upload is issued; after authUser resolved to
\* true it issues one upload, under a key that starts with the identity id of
\* the cached credential set, with public-read visibility; and the storage
\* result of that one upload is what s3Upload resolves to
C11_UploadOnlyWhenAuthenticated ==
    [][\A p \in Procs :
         /\ (pc[p] = "authSettled" /\ last'.op = "s3UploadResume" /\ last'.proc = p) =>
               /\ auth[p].result = "false" =>
                     /\ last'.result = "rejected"
                     /\ last'.err = NotLoggedIn
                     /\ last'.calls.upload = 0
                     /\ pc'[p] = "idle"
               /\ auth[p].result = "true" =>
                     /\ creds.present
                     /\ last'.calls.upload = 1
                     /\ pc'[p] = "upload"
                     /\ StartsWith(last'.key, IdText(creds.identityId))
                     /\ last'.acl = "public-read"
         /\ \A r \in UploadResults :
               (pc[p] = "upload" /\ s3UploadResolve(p, r)) =>
                  /\ last'.result = "resolved"
                  /\ last'.value = r
                  /\ last'.calls.upload = 1
                  /\ pc'[p] = "idle"]_vars

\* C11 witness: s3Upload has resolved to the storage result after one upload
C11_Witness ==
    /\ last.op = "s3UploadResolve"
    /\ last.auth = "true"
    /\ last.result = "resolved"
    /\ last.value \in UploadResults
    /\ last.calls.upload = 1

\* C12: when a handler has responded it has issued one storage call and
\* called back once, with the success envelope if and only if the storage call
\* succeeded and otherwise with the failure envelope around {status: false},
\* which carries nothing of the error the storage call raised
C12_OneCallOneEnvelope ==
    handler.pc = "responded" =>
        /\ handler.calls = 1
        /\ handler.responses = 1
        /\ handler.envelope \in {"success", "failure"}
        /\ handler.envelope = "success" <=> handler.storage = "ok"
        /\ handler.storage # "ok" =>
              /\ handler.error \in StorageErrors
              /\ handler.envelope = "failure"
              /\ handler.body = [status |-> "false", items |-> {}, error |-> "none"]

\* C12 witness: the delete handler has answered a failed storage call with the
\* failure envelope
C12_Witness ==
    /\ handler.pc = "responded"
    /\ handler.name = "delete"
    /\ handler.storage = "error"
    /\ handler.envelope = "failure"

\* C13: authUser flows racing with nobody signing out: once no flow is
\* suspended, if the flow whose store into the cache happened last had its
\* exchange succeed, the cache holds that flow's credential set, complete as
\* the exchange answered it (last store wins); and a flow whose exchange
\* succeeds resolves to true
C13_LastStoreWins ==
    /\ (\A p \in Procs : NotSuspended(p)) =>
          \A q \in Procs :
             (hist.lastStore = q /\ hist.answered[q] # NoAnswer) =>
                 /\ creds.owner = q
                 /\ CacheHolds(creds, hist.answered[q])
                 /\ creds.accessKeyId # Undefined
                 /\ creds.secretAccessKey # Undefined
                 /\ creds.sessionToken # Undefined
                 /\ creds.expireTime # Null
    /\ last.op = "getAwsCredentialsResolve" => last.auth = "true" /\ last.result = "true"

\* C13 witness: two flows both passed the validity check before either
\* stored, both exchanges succeeded with different answers, both are over and
\* the cache holds the set of the one that stored last
C13_Witness ==
    /\ \A p \in Procs : pc[p] = "idle"
    /\ \E p, q \in Procs :
          /\ p # q
          /\ hist.raced[p] /\ hist.raced[q]
          /\ hist.answered[p] # NoAnswer
          /\ hist.answered[q] # NoAnswer
          /\ hist.answered[p] # hist.answered[q]
          /\ hist.lastStore = q
          /\ CacheHolds(creds, hist.answered[q])

\* C14: one call of authUser makes at most one current-user query, one
\* session fetch and one exchange; the exchange is started only in the step
\* in which the pending session fetch delivers a token, and with that token;
\* a failed session fetch or exchange settles the call as rejected, never as
\* true or false
C14_NoRetry ==
    [][/\ \A p \in Procs :
             /\ calls'[p].getCurrentUser <= 1
             /\ calls'[p].getSession <= 1
             /\ calls'[p].exchange <= 1
             /\ calls'[p].exchange > calls[p].exchange =>
                   /\ pc[p] = "getSession"
                   /\ calls[p].getSession = 1
                   /\ auth'[p].token \in Tokens
                   /\ creds'.owner = p
                   /\ creds'.logins = auth'[p].token
             /\ (getUserTokenReject(p) \/ getAwsCredentialsReject(p)) =>
                   /\ last'.auth = "rejected"
                   /\ last'.err \in {"SessionError", "ExchangeError"}
                   /\ pc'[p] \notin {"getSession", "getPromise"}
       /\ last'.calls.getCurrentUser <= 1
       /\ last'.calls.getSession <= 1
       /\ last'.calls.exchange <= 1
       /\ last'.calls.exchange = 1 => last'.calls.getSession = 1
      ]_vars

\* C14 witness: an authUser call has ended as a rejection by a failed
\* exchange, after one query, one session fetch and one exchange
C14_Witness ==
    /\ last.op = "getAwsCredentialsReject"
    /\ last.of = "authUser"
    /\ last.result = "rejected"
    /\ last.err = "ExchangeError"
    /\ last.calls.getCurrentUser = 1
    /\ last.calls.getSession = 1
    /\ last.calls.exchange = 1

Populated(c) ==
    /\ c.present
    /\ c.accessKeyId # Undefined
    /\ c.secretAccessKey # Undefined
    /\ c.sessionToken # Undefined
    /\ c.expireTime # Null

\* C17: with authUser flows and signOutUser calls interleaved in any way, in
\* the step in which a call of authUser resolves to true the cache holds a
\* fully populated credential set, and what invokeApig signs with after a
\* true answer is never a missing credential
C17_TrueMeansPopulated ==
    /\ (/\ last.op \in {"authUser", "invokeApig", "s3Upload", "getAwsCredentialsResolve"}
        /\ last.auth = "true") => Populated(creds)
    /\ (last.op = "invokeApigResume" /\ last.calls.sign = 1) =>
          /\ last.accessKey # Undefined
          /\ last.secretKey # Undefined
          /\ last.sessionToken # Undefined

\* an authUser call of p finishes in this step
AuthFinish(p) ==
    \/ getUserTokenReject(p)
    \/ \E r \in Answers : getAwsCredentialsResolve(p, r)
    \/ getAwsCredentialsReject(p)

\* C18: when signOutUser has run while a call of authUser was suspended at
\* its session fetch or its exchange and nobody has signed in since, then at
\* the step in which that call finishes the validity check is false
C18_SignOutNotUndone ==
    [][\A p \in Procs :
         (hist.signedOut[p] /\ AuthFinish(p)) => ~hasValidCredentials']_vars

\* an authUser call of p ends as a rejection in this step
AuthReject(p) == getUserTokenReject(p) \/ getAwsCredentialsReject(p)

\* C19: with one operation at a time: in the step in which a call of authUser
\* ends as a rejection, by a failed session fetch or a failed exchange, the
\* validity check is false afterwards; and the call of authUser that comes
\* next, whenever it comes, does not take the fast path: it queries the
\* current user and, with a user signed in, fetches the session again
C19_RejectionLeavesInvalid ==
    [][\A p \in Procs :
         /\ AuthReject(p) =>
               /\ last'.auth = "rejected"
               /\ ~hasValidCredentials'
         /\ (AuthCall(p) /\ last.op \in {"getUserTokenReject", "getAwsCredentialsReject"}) =>
               /\ ~hasValidCredentials
               /\ last'.auth # "true"
               /\ last'.calls.getCurrentUser = 1
               /\ signedIn => /\ pc'[p] = "getSession"
                              /\ last'.calls.getSession = 1]_vars

\* C19 witness: after a call that was rejected by a failed exchange, which
\* left its unexchanged object in the cache, the next call of authUser is at
\* its session fetch
C19_Witness ==
    /\ last.op = "authUser"
    /\ last.calls.getSession = 1
    /\ pc[last.proc] = "getSession"
    /\ \A q \in Procs \ {last.proc} : pc[q] = "idle"
    /\ creds.present
    /\ creds.owner # 0
    /\ creds.expireTime = Null

====
